---- MODULE Spec2Model ----
(***************************************************************************)
(* Token caching and refresh layer of the onboarding client:               *)
(*   alice/auth/token_tools.py, alice/auth/cached_token_stack.py,          *)
(*   alice/auth/auth_client.py, alice/auth/auth.py, alice/auth/auth_errors *)
(*                                                                         *)
(* Seven specifications share the module:                                  *)
(*   SpecStack  a CachedTokenStack driven through its public add / get     *)
(*   Spec       an Auth / AuthClient pair serving create_user_token and    *)
(*              create_backend_token calls one after another against a     *)
(*              server that answers 200, an error status, or not in time   *)
(*   SpecValid  is_valid_token called with any Optional[str] at any time   *)
(*   SpecOnboarding  Onboarding.create_user on top of the Auth of Spec     *)
(*   SpecRace   two callers of one AuthClient, one call each, interleaved  *)
(*              at the network boundaries                                  *)
(*   SpecConfig the clients built from one Config and the timeout argument *)
(*              of the requests they send                                  *)
(*   SpecSweep  two threads inside get of one CachedTokenStack, cut at     *)
(*              every statement that reads or changes _data                *)
(*                                                                         *)
(* A JWT string is modelled by the claims the code reads from it: the      *)
(* record [kind, typ, sub, exp].  Two tokens are the same string exactly   *)
(* when the records are equal.  None and the empty string are the two      *)
(* falsy values an Optional[str] can take.                                 *)
(*                                                                         *)
(* The server keeps to its interface: a 200 carries {"token": <jwt>} with  *)
(* a token that decodes and has an exp claim; any other status carries a   *)
(* JSON object or a body that is not JSON.  A call is cut at its network   *)
(* boundaries: Begin runs to the first request that leaves (or to the      *)
(* return, on a cache hit), LoginResponse and MintResponse run from a      *)
(* response to the next request or to the return.  Time may pass between   *)
(* any two of these steps.                                                 *)
(***************************************************************************)
EXTENDS Integers, Sequences, FiniteSets, TLC

VARIABLES
    now,                          \* time.time(), in seconds
    stack,                        \* SpecStack: the CachedTokenStack under test
    last,                         \* SpecStack: the last add / get and the data it found
    cached_login_token,           \* AuthClient._cached_login_token
    cached_backend_token,         \* AuthClient._cached_backend_token
    cached_backend_token_stack,   \* AuthClient._cached_backend_token_stack
    cached_user_token_stack,      \* AuthClient._cached_user_token_stack
    pc,                           \* per caller: where its call stands
    call,                         \* per caller: the operation and user_id of its call
    http,                         \* per caller: the HTTP exchanges of its call, in order
    result,                       \* per caller: the Result its last call returned
    snap,                         \* per caller: the AuthClient fields when its call began
    probe,                        \* SpecValid: the last is_valid_token call and its outcome
    onboarding,                   \* SpecOnboarding: the Onboarding.create_user call
    wiring,                       \* SpecConfig: the clients built from a Config and what they sent
    threads                       \* SpecSweep: per thread, where its CachedTokenStack.get stands

vars ==
    << now, stack, last, cached_login_token, cached_backend_token,
       cached_backend_token_stack, cached_user_token_stack,
       pc, call, http, result, snap, probe, onboarding, wiring, threads >>

authVars ==
    << cached_login_token, cached_backend_token, cached_backend_token_stack,
       cached_user_token_stack, pc, call, http, result, snap >>

stackVars ==
    << stack, last >>

----------------------------------------------------------------------------
(* Bounds of the model and constants of the program *)

\* the clock runs from 0 to MaxNow
MaxNow ==
    130

\* one step of the clock
TickStep ==
    60

\* largest max_size a CachedTokenStack under test is constructed with
MaxStackSize ==
    3

\* is_valid_token(token, margin_seconds=60)
margin_seconds ==
    60

\* CachedTokenStack.__init__(max_size=5000)
default_max_size ==
    5000

\* get_reponse_from_token / the success status every caller tests for
HTTP_OK ==
    200

\* get_response_timeout
HTTP_TIMEOUT ==
    408

----------------------------------------------------------------------------
(* Values *)

None ==
    [kind |-> "None"]

EmptyStr ==
    [kind |-> "str"]

Jwt(typ, sub, exp) ==
    [kind |-> "jwt", typ |-> typ, sub |-> sub, exp |-> exp]

\* Python truthiness of an Optional[str]: None and "" are falsy
Truthy(v) ==
    v # None /\ v # EmptyStr

----------------------------------------------------------------------------
(* alice/auth/token_tools.py *)

is_valid_token(token, t) ==
    IF ~Truthy(token) THEN FALSE ELSE token.exp > t - margin_seconds

\* a non-empty string that is not a JWT
Malformed ==
    [kind |-> "malformed"]

\* a JWT whose payload has no exp claim
JwtNoExp ==
    [kind |-> "jwt", typ |-> "user", sub |-> "x"]

\* a call of is_valid_token with any Optional[str]: the value it returns, or the
\* exception that leaves it (jwt.decode raises DecodeError on a string that is
\* not a JWT; decoded_token["exp"] raises KeyError without the claim)
is_valid_token_call(token, t) ==
    IF ~Truthy(token) THEN [exception |-> "none", value |-> FALSE]
    ELSE IF token.kind # "jwt" THEN [exception |-> "DecodeError", value |-> FALSE]
    ELSE IF "exp" \notin DOMAIN token THEN [exception |-> "KeyError", value |-> FALSE]
    ELSE [exception |-> "none", value |-> is_valid_token(token, t)]

----------------------------------------------------------------------------
(* alice/auth/cached_token_stack.py                                        *)
(* _data is an OrderedDict: a sequence of [key, token] with distinct keys, *)
(* oldest insertion first.                                                 *)

Keys(data) ==
    { data[i].key : i \in 1..Len(data) }

IndexOf(data, user_id) ==
    CHOOSE i \in 1..Len(data) : data[i].key = user_id


\* the lookup ignores the key and hands out the newest token
Lookup_any_key(data, user_id) ==
    IF data # << >> THEN data[Len(data)].token ELSE None

\* OrderedDict.get(user_id): the stored token, or None
Lookup(data, user_id) ==
    IF user_id \in Keys(data) THEN data[IndexOf(data, user_id)].token ELSE None

\* OrderedDict.__setitem__: a new key goes to the end, a stored key keeps its place
SetItem(data, user_id, token) ==
    IF user_id \in Keys(data)
    THEN [data EXCEPT ![IndexOf(data, user_id)].token = token]
    ELSE Append(data, [key |-> user_id, token |-> token])


add_keeps_max_size(s, user_id, token) ==
    LET data == SetItem(s.data, user_id, token)
    IN  [s EXCEPT !.data =
            IF Len(data) > s.max_size
            THEN SubSeq(data, Len(data) - s.max_size + 1, Len(data))
            ELSE data]

add(s, user_id, token) ==
    [s EXCEPT !.data = SetItem(s.data, user_id, token)]

\* the reverse scan: the token of the newest entry that is not valid, or None
RECURSIVE LatestExpiredToken(_, _)
LatestExpiredToken(data, t) ==
    IF data = << >> THEN None
    ELSE IF ~is_valid_token(data[Len(data)].token, t) THEN data[Len(data)].token
    ELSE LatestExpiredToken(SubSeq(data, 1, Len(data) - 1), t)

\* the removal loop pops once more after the entry it was looking for
RECURSIVE PopUntil_once_more(_, _)
PopUntil_once_more(data, latest) ==
    IF data = << >> THEN [data |-> << >>, raised |-> TRUE]
    ELSE IF Head(data).token = latest
    THEN IF Tail(data) = << >> THEN [data |-> << >>, raised |-> TRUE]
         ELSE [data |-> Tail(Tail(data)), raised |-> FALSE]
    ELSE PopUntil_once_more(Tail(data), latest)

\* the removal loop: popitem(last=False) until the popped token equals latest;
\* popitem on an empty OrderedDict raises KeyError
RECURSIVE PopUntil(_, _)
PopUntil(data, latest) ==
    IF data = << >> THEN [data |-> << >>, raised |-> TRUE]
    ELSE IF Head(data).token = latest THEN [data |-> Tail(data), raised |-> FALSE]
    ELSE PopUntil(Tail(data), latest)

clear_expired_tokens_only(data, t) ==
    [data |-> SelectSeq(data, LAMBDA e : ~Truthy(e.token) \/ is_valid_token(e.token, t)),
     raised |-> FALSE]

clear_expired_tokens(data, t) ==
    IF Len(data) > 0 /\ Truthy(LatestExpiredToken(data, t))
    THEN PopUntil(data, LatestExpiredToken(data, t))
    ELSE [data |-> data, raised |-> FALSE]


clear_if_max_size_has_been_exceeded_newest_first(data, max_size) ==
    IF Len(data) > max_size THEN SubSeq(data, 1, max_size) ELSE data

clear_if_max_size_has_been_exceeded_off_by_one(data, max_size) ==
    IF Len(data) > max_size + 1
    THEN SubSeq(data, Len(data) - max_size + 1, Len(data))
    ELSE data

clear_if_max_size_has_been_exceeded(data, max_size) ==
    IF Len(data) > max_size
    THEN SubSeq(data, Len(data) - max_size + 1, Len(data))
    ELSE data





\* a get that runs neither pass
get_without_passes(s, user_id, t) ==
    [token |-> Lookup(s.data, user_id), stack |-> s, raised |-> FALSE]

\* a get that refreshes the position of the entry it found (move_to_end)
get_moves_to_end(s, user_id, t) ==
    LET token == Lookup(s.data, user_id)
        moved == Append(SelectSeq(s.data, LAMBDA e : e.key # user_id),
                        [key |-> user_id, token |-> token])
        swept == clear_expired_tokens(moved, t)
    IN  IF ~Truthy(token) THEN [token |-> token, stack |-> s, raised |-> FALSE]
        ELSE IF swept.raised
        THEN [token |-> token, stack |-> [s EXCEPT !.data = swept.data], raised |-> TRUE]
        ELSE [token |-> token,
              stack |-> [s EXCEPT !.data =
                            clear_if_max_size_has_been_exceeded(swept.data, s.max_size)],
              raised |-> FALSE]

get_reads_after_sweep(s, user_id, t) ==
    LET token == Lookup(s.data, user_id)
        swept == clear_expired_tokens(s.data, t)
        kept  == clear_if_max_size_has_been_exceeded(swept.data, s.max_size)
    IN  IF ~Truthy(token) THEN [token |-> token, stack |-> s, raised |-> FALSE]
        ELSE IF swept.raised
        THEN [token |-> token, stack |-> [s EXCEPT !.data = swept.data], raised |-> TRUE]
        ELSE [token |-> Lookup(kept, user_id),
              stack |-> [s EXCEPT !.data = kept], raised |-> FALSE]

get_sweeps_on_miss(s, user_id, t) ==
    LET token == Lookup(s.data, user_id)
        swept == clear_expired_tokens(s.data, t)
    IN  IF swept.raised
        THEN [token |-> token, stack |-> [s EXCEPT !.data = swept.data], raised |-> TRUE]
        ELSE [token |-> token,
              stack |-> [s EXCEPT !.data =
                            clear_if_max_size_has_been_exceeded(swept.data, s.max_size)],
              raised |-> FALSE]

\* get: [token, stack, raised]; the two passes run only when a token was found
get(s, user_id, t) ==
    LET token == Lookup(s.data, user_id)
        swept == clear_expired_tokens(s.data, t)
    IN  IF ~Truthy(token) THEN [token |-> token, stack |-> s, raised |-> FALSE]
        ELSE IF swept.raised
        THEN [token |-> token, stack |-> [s EXCEPT !.data = swept.data], raised |-> TRUE]
        ELSE [token |-> token,
              stack |-> [s EXCEPT !.data =
                            clear_if_max_size_has_been_exceeded(swept.data, s.max_size)],
              raised |-> FALSE]

CachedTokenStack(max_size) ==
    [data |-> << >>, max_size |-> max_size]

----------------------------------------------------------------------------
(* SpecStack: one CachedTokenStack, its add and get called in any order    *)

StackKeys ==
    {"k1", "k2", "k3"}

\* the token strings handed to add: two that expire first, one that expires
\* later, and ""
StackTokens ==
    { Jwt("user", "x", 30), Jwt("user", "y", 30), Jwt("user", "x", 90), EmptyStr }

NoOp ==
    [op |-> "none", key |-> "", token |-> None, before |-> << >>,
     at |-> 0, raised |-> FALSE]


\* no is_valid_token call made yet
NoProbe ==
    [called |-> FALSE, token |-> None, at |-> 0, exception |-> "none", value |-> FALSE]


\* no client built from a Config yet
Unbuilt ==
    [built |-> FALSE]

\* no thread inside a CachedTokenStack
NoThreads ==
    << >>

\* no create_user call made yet
OnboardingIdle ==
    [pc |-> "idle", http |-> << >>, result |-> [ok |-> FALSE]]

AuthIdle ==
    /\ cached_login_token = None
    /\ cached_backend_token = None
    /\ cached_backend_token_stack = CachedTokenStack(default_max_size)
    /\ cached_user_token_stack = CachedTokenStack(default_max_size)
    /\ pc = [t \in {1} |-> "idle"]
    /\ call = [t \in {1} |-> [op |-> "none", user_id |-> None]]
    /\ http = [t \in {1} |-> << >>]
    /\ result = [t \in {1} |-> [ok |-> FALSE]]
    /\ snap = [t \in {1} |-> [at |-> 0]]

InitStack ==
    /\ now = 0
    /\ stack \in { CachedTokenStack(m) : m \in 1..MaxStackSize }
    /\ last = NoOp
    /\ AuthIdle
    /\ probe = NoProbe
    /\ wiring = Unbuilt
    /\ threads = NoThreads
    /\ onboarding = OnboardingIdle

Tick ==
    /\ now + TickStep <= MaxNow
    /\ now' = now + TickStep

StackAdd(user_id, token) ==
    /\ stack' = add(stack, user_id, token)
    /\ last' = [op |-> "add", key |-> user_id, token |-> token,
                before |-> stack.data, at |-> now, raised |-> FALSE]
    /\ UNCHANGED << now, authVars, probe, wiring, threads, onboarding >>

StackGet(user_id) ==
    LET g == get(stack, user_id, now)
    IN  /\ stack' = g.stack
        /\ last' = [op |-> "get", key |-> user_id, token |-> g.token,
                    before |-> stack.data, at |-> now, raised |-> g.raised]
        /\ UNCHANGED << now, authVars, probe, wiring, threads, onboarding >>

StackTick ==
    /\ Tick
    /\ UNCHANGED << stackVars, authVars, probe, wiring, threads, onboarding >>

NextStack ==
    \/ \E k \in StackKeys, tok \in StackTokens : StackAdd(k, tok)
    \/ \E k \in StackKeys : StackGet(k)
    \/ StackTick

SpecStack ==
    InitStack /\ [][NextStack]_vars

----------------------------------------------------------------------------
(* alice/auth/auth_client.py, alice/auth/auth.py, alice/auth/auth_errors.py *)
(* A Response is [status_code, json]: json is the decoded body, or NotJson  *)
(* when response.json() raises.                                             *)

Callers ==
    {1}

Users ==
    {"u1", "u2"}

\* the user_id values create_backend_token is called with
BackendUserIds ==
    { [kind |-> "id", id |-> u] : u \in Users } \cup {None, EmptyStr}

UserId(u) ==
    [kind |-> "id", id |-> u]

\* lifetimes of the tokens the server issues: exp = now + ttl
TTLs ==
    {30}

NotJson ==
    [kind |-> "notjson"]

Pending ==
    [kind |-> "pending"]

\* what the server can answer besides a 200 with a token
ErrorResponses ==
    { [status_code |-> 401, json |-> [message |-> "Unauthorized"]],
      [status_code |-> 503, json |-> NotJson] }

OkResponse(token) ==
    [status_code |-> HTTP_OK, json |-> [token |-> token]]

\* requests.exceptions.Timeout raised by session.get
Timeout ==
    [kind |-> "Timeout"]

get_response_timeout_as_504 ==
    [status_code |-> 504, json |-> [message |-> "Request timed out"]]

get_response_timeout ==
    [status_code |-> HTTP_TIMEOUT, json |-> [message |-> "Request timed out"]]

get_reponse_from_token(token) ==
    [status_code |-> HTTP_OK, json |-> [token |-> token]]

\* response.json().get("token")
get_token_from_response(response) ==
    IF response.json # NotJson /\ "token" \in DOMAIN response.json
    THEN response.json.token
    ELSE None

\* what session.get hands back for an outcome of the exchange
Received(outcome) ==
    IF outcome = Timeout THEN get_response_timeout ELSE outcome

Success(token) ==
    [ok |-> TRUE, token |-> token]

Failure(error) ==
    [ok |-> FALSE, error |-> error]

\* the answers the server can give to a request for a token of type typ
\* and subject sub at time t, and the case that none arrives in time
Outcomes(typ, sub, t) ==
    { OkResponse(Jwt(typ, sub, t + ttl)) : ttl \in TTLs } \cup ErrorResponses \cup {Timeout}

AuthError_from_response(operation, response) ==
    [operation |-> operation,
     code |-> response.status_code,
     message |-> IF response.json = NotJson
                 THEN [message |-> "no content"]
                 ELSE response.json]


OperationName_if_not_None(c) ==
    IF c.op = "create_user_token" THEN "create_user_token"
    ELSE IF c.user_id # None THEN "create_backend_token (with user)"
    ELSE "create_backend_token"

\* Auth.create_user_token / Auth.create_backend_token: the name in the error
OperationName(c) ==
    IF c.op = "create_user_token" THEN "create_user_token"
    ELSE IF Truthy(c.user_id) THEN "create_backend_token (with user)"
    ELSE "create_backend_token"

\* Auth.create_*: the client's Response turned into a Result
AuthResult(c, response) ==
    IF response.status_code = HTTP_OK
    THEN Success(get_token_from_response(response))
    ELSE Failure(AuthError_from_response(OperationName(c), response))

\* which cache a call reads and writes
CacheOf(c) ==
    IF c.op = "create_user_token" THEN "user"
    ELSE IF Truthy(c.user_id) THEN "backend_with_user"
    ELSE "backend"

MintUrl_without_user(c) ==
    IF c.op = "create_user_token" THEN "/user_token/{user_id}" ELSE "/backend_token"

MintUrl(c) ==
    IF c.op = "create_user_token" THEN "/user_token/{user_id}"
    ELSE IF Truthy(c.user_id) THEN "/backend_token/{user_id}"
    ELSE "/backend_token"

\* the type and subject the server writes into the token it mints for a url
MintType(c) ==
    CacheOf(c)

MintSubject(c) ==
    IF CacheOf(c) = "backend" THEN "" ELSE c.user_id.id

LoginRequest ==
    [url |-> "/login_token", user_id |-> None, credential |-> [kind |-> "apikey"],
     response |-> Pending]

MintRequest(c, login_token) ==
    [url |-> MintUrl(c),
     user_id |-> IF CacheOf(c) = "backend" THEN None ELSE c.user_id,
     credential |-> login_token,
     response |-> Pending]

\* the last exchange of a call ends: outcome is the server's response, or Timeout
Answered(exchanges, outcome) ==
    [exchanges EXCEPT ![Len(exchanges)].response = outcome]


\* the backend slot handed out without the validity test
get_cached_backend_token_unchecked(token, t) ==
    token

get_cached_backend_token(token, t) ==
    IF ~is_valid_token(token, t) THEN None ELSE token

\* `if token:` after the cache lookup
CacheHit_never(token) ==
    FALSE

CacheHit(token) ==
    Truthy(token)


\* _get_login_token waits for a /login_token request that is already out
NeedsLoginToken_unless_in_flight(token, t) ==
    ~is_valid_token(token, t) /\ \A u \in DOMAIN pc : pc[u] # "login_token"

\* _get_login_token: whether a /login_token request is needed
NeedsLoginToken_always(token, t) ==
    TRUE

NeedsLoginToken(token, t) ==
    ~is_valid_token(token, t)

\* `if response.status_code == 200:` before a token is stored
Stores_always(response) ==
    TRUE

Stores(response) ==
    response.status_code = HTTP_OK

AuthSnapshot ==
    [at |-> now,
     login |-> cached_login_token,
     backend |-> cached_backend_token,
     backend_stack |-> cached_backend_token_stack,
     user_stack |-> cached_user_token_stack]

\* the call of caller t returns response through Auth
Return(t, c, response) ==
    /\ pc' = [pc EXCEPT ![t] = "done"]
    /\ result' = [result EXCEPT ![t] = AuthResult(c, response)]

\* _get_login_token on a cache miss, up to the first request that leaves
AfterMiss(t, c) ==
    IF NeedsLoginToken(cached_login_token, now)
    THEN /\ http' = [http EXCEPT ![t] = << LoginRequest >>]
         /\ pc' = [pc EXCEPT ![t] = "login_token"]
         /\ UNCHANGED result
    ELSE /\ http' = [http EXCEPT ![t] = << MintRequest(c, cached_login_token) >>]
         /\ pc' = [pc EXCEPT ![t] = "mint"]
         /\ UNCHANGED result

\* create_user_token / create_backend_token, from the call to the first
\* request that leaves, or to the return when the cache answers
Begin(t, c) ==
    /\ pc[t] \in {"idle", "done"}
    /\ call' = [call EXCEPT ![t] = c]
    /\ snap' = [snap EXCEPT ![t] = AuthSnapshot]
    /\ UNCHANGED << now, stackVars, probe, wiring, threads,
                    cached_login_token, cached_backend_token >>
    /\ LET found ==
               IF CacheOf(c) = "user"
               THEN get(cached_user_token_stack, c.user_id.id, now)
               ELSE IF CacheOf(c) = "backend_with_user"
               THEN get(cached_backend_token_stack, c.user_id.id, now)
               ELSE [token |-> get_cached_backend_token(cached_backend_token, now),
                     raised |-> FALSE]
       IN  /\ cached_user_token_stack' =
                  IF CacheOf(c) = "user" THEN found.stack ELSE cached_user_token_stack
           /\ cached_backend_token_stack' =
                  IF CacheOf(c) = "backend_with_user" THEN found.stack
                  ELSE cached_backend_token_stack
           /\ IF found.raised
              THEN /\ pc' = [pc EXCEPT ![t] = "raised"]
                   /\ http' = [http EXCEPT ![t] = << >>]
                   /\ UNCHANGED result
              ELSE IF CacheHit(found.token)
              THEN /\ http' = [http EXCEPT ![t] = << >>]
                   /\ Return(t, c, get_reponse_from_token(found.token))
              ELSE AfterMiss(t, c)

\* the /login_token exchange of caller t ends: _create_login_token returns and
\* _get_login_token stores the token and the mint request leaves, or the call
\* returns the failed response
LoginFailed_never(response) ==
    FALSE

LoginFailed(response) ==
    response.status_code # HTTP_OK

LoginResponse(t, outcome) ==
    LET response == Received(outcome)
    IN  /\ pc[t] = "login_token"
        /\ UNCHANGED << now, stackVars, probe, wiring, threads,
                        call, snap, cached_backend_token,
                        cached_backend_token_stack, cached_user_token_stack >>
        /\ IF LoginFailed(response)
           THEN /\ http' = [http EXCEPT ![t] = Answered(@, outcome)]
                /\ Return(t, call[t], response)
                /\ UNCHANGED cached_login_token
           ELSE /\ cached_login_token' = get_token_from_response(response)
                /\ http' = [http EXCEPT ![t] =
                               Append(Answered(@, outcome),
                                      MintRequest(call[t],
                                                  get_token_from_response(response)))]
                /\ pc' = [pc EXCEPT ![t] = "mint"]
                /\ UNCHANGED result

\* the token of a 200 response goes into the cache of the call
StoreMinted(c, response) ==
    /\ cached_user_token_stack' =
           IF CacheOf(c) = "user" /\ Stores(response)
           THEN add(cached_user_token_stack, c.user_id.id, get_token_from_response(response))
           ELSE cached_user_token_stack
    /\ cached_backend_token_stack' =
           IF CacheOf(c) = "backend_with_user" /\ Stores(response)
           THEN add(cached_backend_token_stack, c.user_id.id,
                    get_token_from_response(response))
           ELSE cached_backend_token_stack
    /\ cached_backend_token' =
           IF CacheOf(c) = "backend" /\ Stores(response)
           THEN get_token_from_response(response)
           ELSE cached_backend_token

\* the call ends with the response of its mint request
MintDone_retry(t, outcome) ==
    IF Received(outcome).status_code # HTTP_OK /\ Len(http[t]) < 3
    THEN /\ http' = [http EXCEPT ![t] =
                        Append(Answered(@, outcome),
                               [@[Len(@)] EXCEPT !.response = Pending])]
         /\ UNCHANGED << pc, result >>
    ELSE /\ http' = [http EXCEPT ![t] = Answered(@, outcome)]
         /\ Return(t, call[t], Received(outcome))

MintDone(t, outcome) ==
    /\ http' = [http EXCEPT ![t] = Answered(@, outcome)]
    /\ Return(t, call[t], Received(outcome))

\* the mint exchange of caller t ends: the token of a 200 is stored and the
\* response is returned
MintResponse(t, outcome) ==
    LET response == Received(outcome)
    IN  /\ pc[t] = "mint"
        /\ UNCHANGED << now, stackVars, probe, wiring, threads,
                        call, snap, cached_login_token >>
        /\ StoreMinted(call[t], response)
        /\ MintDone(t, outcome)

AuthTick ==
    /\ Tick
    /\ UNCHANGED << stackVars, authVars, probe, wiring, threads >>

Calls ==
    { [op |-> "create_user_token", user_id |-> UserId(u)] : u \in Users }
    \cup { [op |-> "create_backend_token", user_id |-> u] : u \in BackendUserIds }

Init ==
    /\ now = 0
    /\ stack = CachedTokenStack(default_max_size)
    /\ last = NoOp
    /\ AuthIdle
    /\ probe = NoProbe
    /\ wiring = Unbuilt
    /\ threads = NoThreads
    /\ onboarding = OnboardingIdle

Next ==
    \/ \E t \in Callers, c \in Calls : Begin(t, c) /\ UNCHANGED onboarding
    \/ \E t \in Callers : \E o \in Outcomes("login", "", now) :
           LoginResponse(t, o) /\ UNCHANGED onboarding
    \/ \E t \in Callers :
           \E o \in Outcomes(MintType(call[t]), MintSubject(call[t]), now) :
               MintResponse(t, o) /\ UNCHANGED onboarding
    \/ AuthTick /\ UNCHANGED onboarding

Spec ==
    Init /\ [][Next]_vars

----------------------------------------------------------------------------
(* Claims about CachedTokenStack, checked under SpecStack *)


----------------------------------------------------------------------------
(* SpecValid: is_valid_token called with any Optional[str] at any time      *)

\* spacing of the exp claims of the tokens is_valid_token is called with
ExpStep ==
    5

ProbeTokens ==
    {None, EmptyStr, Malformed, JwtNoExp}
    \cup { Jwt("user", "x", e) : e \in { x \in 0..MaxNow : x % ExpStep = 0 } }

InitValid ==
    /\ now = 0
    /\ stack = CachedTokenStack(default_max_size)
    /\ last = NoOp
    /\ AuthIdle
    /\ probe = NoProbe
    /\ wiring = Unbuilt
    /\ threads = NoThreads
    /\ onboarding = OnboardingIdle

ValidCall(token) ==
    /\ probe' = [called |-> TRUE, token |-> token, at |-> now,
                 exception |-> is_valid_token_call(token, now).exception,
                 value |-> is_valid_token_call(token, now).value]
    /\ UNCHANGED << now, stackVars, authVars, onboarding, wiring, threads >>

ValidTick ==
    /\ Tick
    /\ UNCHANGED << stackVars, authVars, probe, wiring, threads, onboarding >>

NextValid ==
    \/ \E token \in ProbeTokens : ValidCall(token)
    \/ ValidTick

SpecValid ==
    InitValid /\ [][NextValid]_vars


----------------------------------------------------------------------------
(* alice/onboarding/onboarding_client.py, alice/onboarding/onboarding.py,   *)
(* alice/onboarding/onboarding_errors.py                                    *)
(* SpecOnboarding: Onboarding.create_user called again and again on one     *)
(* Onboarding, whose OnboardingClient takes its backend token from the Auth *)
(* of Spec (caller 1) and then posts to /user                               *)

\* self.auth.create_backend_token(): no user_id
CreateUserCall ==
    [op |-> "create_backend_token", user_id |-> None]

\* session.post(f"{url}/user") with the Authorization header of the token
UserRequest(backend_token) ==
    [url |-> "/user", bearer |-> backend_token, response |-> Pending]

\* the answers the server can give to POST /user, and the case that none
\* arrives in time
UserOutcomes ==
    { [status_code |-> HTTP_OK, json |-> [user_id |-> "new-user"]] }
    \cup ErrorResponses \cup {Timeout}

OnboardingError_from_response(operation, response) ==
    [class |-> "OnboardingError",
     operation |-> operation,
     code |-> response.status_code,
     message |-> IF response.json = NotJson
                 THEN [message |-> "no content"]
                 ELSE response.json]

OnboardingError_timeout(operation) ==
    [class |-> "OnboardingError",
     operation |-> operation,
     code |-> HTTP_TIMEOUT,
     message |-> [message |-> "Request timed out"]]

\* unwrap_or_return posts to /user although the token Result is a Failure
unwrap_or_return_keeps_going(o, p, r) ==
    IF p = "raised" THEN [o EXCEPT !.pc = "raised", !.http = << >>]
    ELSE IF p # "done" THEN [o EXCEPT !.pc = "token", !.http = << >>]
    ELSE [o EXCEPT !.pc = "post",
                   !.http = << UserRequest(IF r.ok THEN r.token ELSE None) >>]

\* OnboardingClient.create_user from create_backend_token().unwrap_or_return()
\* on: while the Auth call (at p, with Result r once done) is out for a token
\* the operation waits; a Failure is returned as it is by the @early_return
\* of OnboardingClient.create_user and again by that of
\* Onboarding.create_user; a Success lets the POST /user leave
unwrap_or_return(o, p, r) ==
    IF p = "raised" THEN [o EXCEPT !.pc = "raised", !.http = << >>]
    ELSE IF p # "done" THEN [o EXCEPT !.pc = "token", !.http = << >>]
    ELSE IF r.ok
    THEN [o EXCEPT !.pc = "post", !.http = << UserRequest(r.token) >>]
    ELSE [pc |-> "done", http |-> << >>, result |-> r]

\* Onboarding.create_user: the Result made of the outcome of POST /user
CreateUserResult(outcome) ==
    IF outcome = Timeout
    THEN Failure(OnboardingError_timeout("create_user"))
    ELSE IF outcome.status_code = HTTP_OK
    THEN [ok |-> TRUE, user_id |-> outcome.json.user_id]
    ELSE Failure(OnboardingError_from_response("create_user", outcome))

\* Onboarding.create_user is called
CreateUser ==
    /\ onboarding.pc \in {"idle", "done"}
    /\ Begin(1, CreateUserCall)
    /\ onboarding' = unwrap_or_return(onboarding, pc'[1], result'[1])

\* the /login_token exchange of the operation's token call ends
CreateUserLoginResponse(outcome) ==
    /\ onboarding.pc = "token"
    /\ LoginResponse(1, outcome)
    /\ onboarding' = unwrap_or_return(onboarding, pc'[1], result'[1])

\* the /backend_token exchange of the operation's token call ends
CreateUserMintResponse(outcome) ==
    /\ onboarding.pc = "token"
    /\ MintResponse(1, outcome)
    /\ onboarding' = unwrap_or_return(onboarding, pc'[1], result'[1])

\* the POST /user exchange ends and create_user returns
CreateUserResponse(outcome) ==
    /\ onboarding.pc = "post"
    /\ onboarding' = [pc |-> "done",
                      http |-> Answered(onboarding.http, outcome),
                      result |-> CreateUserResult(outcome)]
    /\ UNCHANGED << now, stackVars, authVars, probe, wiring, threads >>

OnboardingTick ==
    /\ AuthTick
    /\ UNCHANGED onboarding

NextOnboarding ==
    \/ CreateUser
    \/ \E o \in Outcomes("login", "", now) : CreateUserLoginResponse(o)
    \/ \E o \in Outcomes("backend", "", now) : CreateUserMintResponse(o)
    \/ \E o \in UserOutcomes : CreateUserResponse(o)
    \/ OnboardingTick

SpecOnboarding ==
    Init /\ [][NextOnboarding]_vars


----------------------------------------------------------------------------
(* SpecRace: two callers share one AuthClient; each makes one create_*      *)
(* call, and the calls interleave at their network boundaries               *)

Racers ==
    {1, 2}

\* the login slot is empty, or holds the token of an earlier login that
\* expires as the clock runs
InitRace ==
    /\ now = 0
    /\ stack = CachedTokenStack(default_max_size)
    /\ last = NoOp
    /\ cached_login_token \in {None, Jwt("login", "", 30)}
    /\ cached_backend_token = None
    /\ cached_backend_token_stack = CachedTokenStack(default_max_size)
    /\ cached_user_token_stack = CachedTokenStack(default_max_size)
    /\ pc = [t \in Racers |-> "idle"]
    /\ call = [t \in Racers |-> [op |-> "none", user_id |-> None]]
    /\ http = [t \in Racers |-> << >>]
    /\ result = [t \in Racers |-> [ok |-> FALSE]]
    /\ snap = [t \in Racers |-> [at |-> 0]]
    /\ probe = NoProbe
    /\ wiring = Unbuilt
    /\ threads = NoThreads
    /\ onboarding = OnboardingIdle

RaceBegin(t, c) ==
    /\ pc[t] = "idle"
    /\ Begin(t, c)
    /\ UNCHANGED onboarding

RaceLoginResponse(t, outcome) ==
    /\ LoginResponse(t, outcome)
    /\ UNCHANGED onboarding

RaceMintResponse(t, outcome) ==
    /\ MintResponse(t, outcome)
    /\ UNCHANGED onboarding

RaceTick ==
    /\ AuthTick
    /\ UNCHANGED onboarding

NextRace ==
    \/ \E t \in Racers, c \in Calls : RaceBegin(t, c)
    \/ \E t \in Racers : \E o \in Outcomes("login", "", now) : RaceLoginResponse(t, o)
    \/ \E t \in Racers :
           \E o \in Outcomes(MintType(call[t]), MintSubject(call[t]), now) :
               RaceMintResponse(t, o)
    \/ RaceTick

SpecRace ==
    InitRace /\ [][NextRace]_vars


----------------------------------------------------------------------------
(* alice/config.py and the from_config / __init__ of every client           *)
(* SpecConfig: the clients are built from one Config and send requests;     *)
(* each request is recorded with the timeout argument it is sent with       *)

\* largest Config.timeout of the model, in seconds
MaxTimeout ==
    3

\* a float number of seconds
Seconds(n) ==
    [kind |-> "float", seconds |-> n]

\* Config.timeout: Union[float, None]
ConfigTimeouts ==
    {None} \cup { Seconds(n) : n \in 1..MaxTimeout }

\* the timeout each object holds once built from a Config with this timeout:
\* Auth.from_config hands config.timeout to Auth and on to AuthClient;
\* Onboarding.from_config and Onboarding.__init__ have no timeout and build
\* OnboardingClient without one (its default is None); WebhooksClient has no
\* timeout at all; Face.from_config hands config.timeout to Face
from_config(timeout) ==
    [built |-> TRUE,
     config |-> timeout,
     auth_client |-> timeout,
     onboarding_client |-> None,
     face |-> timeout,
     sent |-> {}]

\* the outbound requests of the model, by the client that sends them
RequestKinds ==
    { [client |-> "AuthClient", request |-> "GET /login_token"],
      [client |-> "AuthClient", request |-> "GET /backend_token"],
      [client |-> "OnboardingClient", request |-> "POST /user"],
      [client |-> "OnboardingClient", request |-> "RequestRunner"],
      [client |-> "WebhooksClient", request |-> "GET /events"],
      [client |-> "Face", request |-> "POST /selfie"] }

\* the timeout argument of session.get / session.post for a request of this
\* client: self.timeout for AuthClient and OnboardingClient (RequestRunner is
\* given self.timeout too), none passed (requests' default None) for
\* WebhooksClient and Face
TimeoutArgument(w, kind) ==
    IF kind.client = "AuthClient" THEN w.auth_client
    ELSE IF kind.client = "OnboardingClient" THEN w.onboarding_client
    ELSE None

InitConfig ==
    /\ now = 0
    /\ stack = CachedTokenStack(default_max_size)
    /\ last = NoOp
    /\ AuthIdle
    /\ probe = NoProbe
    /\ onboarding = OnboardingIdle
    /\ wiring = Unbuilt
    /\ threads = NoThreads

BuildFromConfig(timeout) ==
    /\ ~wiring.built
    /\ wiring' = from_config(timeout)
    /\ UNCHANGED << now, stackVars, authVars, probe, onboarding, threads >>

SendRequest(kind) ==
    /\ wiring.built
    /\ wiring' = [wiring EXCEPT !.sent =
                     @ \cup {[client |-> kind.client, request |-> kind.request,
                              timeout |-> TimeoutArgument(wiring, kind)]}]
    /\ UNCHANGED << now, stackVars, authVars, probe, onboarding, threads >>

NextConfig ==
    \/ \E timeout \in ConfigTimeouts : BuildFromConfig(timeout)
    \/ \E kind \in RequestKinds : SendRequest(kind)

SpecConfig ==
    InitConfig /\ [][NextConfig]_vars


----------------------------------------------------------------------------
(* SpecSweep: two threads call get on one CachedTokenStack with no lock.    *)
(* A get is cut at the statements that read or change _data: the lookup,    *)
(* the reverse scan over list(_data.values()), each popitem of the removal  *)
(* loop, the len() of the capacity pass and each popitem of its loop.       *)

SweepThreads ==
    {1, 2}

\* the token strings of the cache the threads meet: two that expire first
\* and one that expires later
SweepTokens ==
    { Jwt("user", "x", 30), Jwt("user", "y", 30), Jwt("user", "x", 90) }

\* the caches of up to three entries with distinct keys
SweepCaches ==
    UNION { { d \in [1..n -> [key : StackKeys, token : SweepTokens]] :
                \A i, j \in 1..n : d[i].key = d[j].key => i = j } : n \in 0..3 }

\* a thread outside get; removed and disturbed record what its get popped and
\* whether another thread popped while it was past its scan
ThreadIdle ==
    [pc |-> "idle", key |-> "", token |-> None, latest |-> None,
     num_to_delete |-> 0, removed |-> << >>, disturbed |-> FALSE]

InitSweep ==
    /\ now \in { t \in 0..MaxNow : t % TickStep = 0 }
    /\ \E d \in SweepCaches, m \in 1..MaxStackSize :
           stack = [data |-> d, max_size |-> m]
    /\ last = NoOp
    /\ AuthIdle
    /\ probe = NoProbe
    /\ onboarding = OnboardingIdle
    /\ wiring = Unbuilt
    /\ threads = [t \in SweepThreads |-> ThreadIdle]

\* `if token == latest_expired_token:` ends the removal loop
LoopStops_never(token, latest) ==
    FALSE

LoopStops(token, latest) ==
    token = latest

\* a popitem of thread t happened: the other threads past their scan are
\* disturbed
Disturb(th, t) ==
    [u \in SweepThreads |->
        IF u # t /\ th[u].pc \in {"pop", "count", "cap_pop"}
        THEN [th[u] EXCEPT !.disturbed = TRUE]
        ELSE th[u]]

\* token = self._data.get(user_id); `if token:`
SweepGet(t, user_id) ==
    /\ threads[t].pc = "idle"
    /\ threads' = [threads EXCEPT
           ![t].key = user_id,
           ![t].token = Lookup(stack.data, user_id),
           ![t].pc = IF Truthy(Lookup(stack.data, user_id)) THEN "scan" ELSE "done"]
    /\ UNCHANGED << now, stackVars, authVars, probe, onboarding, wiring >>

\* _clear_expired_tokens up to the removal loop: len, the reverse scan
SweepScan(t) ==
    /\ threads[t].pc = "scan"
    /\ LET latest == IF Len(stack.data) > 0
                     THEN LatestExpiredToken(stack.data, now) ELSE None
       IN  threads' = [threads EXCEPT
               ![t].latest = latest,
               ![t].pc = IF Truthy(latest) THEN "pop" ELSE "count"]
    /\ UNCHANGED << now, stackVars, authVars, probe, onboarding, wiring >>

\* one pass of the removal loop: popitem(last=False), then the comparison
SweepPop(t) ==
    /\ threads[t].pc = "pop"
    /\ IF stack.data = << >>
       THEN /\ threads' = [threads EXCEPT ![t].pc = "raised"]
            /\ UNCHANGED stack
       ELSE /\ stack' = [stack EXCEPT !.data = Tail(@)]
            /\ threads' = Disturb(
                   [threads EXCEPT
                       ![t].removed = Append(@, Head(stack.data)),
                       ![t].pc = IF LoopStops(Head(stack.data).token, threads[t].latest)
                                 THEN "count" ELSE "pop"], t)
    /\ UNCHANGED << now, last, authVars, probe, onboarding, wiring >>

\* _clear_if_max_size_has_been_exceeded up to its loop
SweepCount(t) ==
    /\ threads[t].pc = "count"
    /\ threads' = [threads EXCEPT
           ![t].num_to_delete = IF Len(stack.data) > stack.max_size
                                THEN Len(stack.data) - stack.max_size ELSE 0,
           ![t].pc = IF Len(stack.data) > stack.max_size THEN "cap_pop" ELSE "done"]
    /\ UNCHANGED << now, stackVars, authVars, probe, onboarding, wiring >>

\* one pass of the loop of the capacity pass
SweepCapPop(t) ==
    /\ threads[t].pc = "cap_pop"
    /\ IF stack.data = << >>
       THEN /\ threads' = [threads EXCEPT ![t].pc = "raised"]
            /\ UNCHANGED stack
       ELSE /\ stack' = [stack EXCEPT !.data = Tail(@)]
            /\ threads' = Disturb(
                   [threads EXCEPT
                       ![t].removed = Append(@, Head(stack.data)),
                       ![t].num_to_delete = @ - 1,
                       ![t].pc = IF threads[t].num_to_delete = 1
                                 THEN "done" ELSE "cap_pop"], t)
    /\ UNCHANGED << now, last, authVars, probe, onboarding, wiring >>

NextSweep ==
    \/ \E t \in SweepThreads, k \in StackKeys : SweepGet(t, k)
    \/ \E t \in SweepThreads : SweepScan(t)
    \/ \E t \in SweepThreads : SweepPop(t)
    \/ \E t \in SweepThreads : SweepCount(t)
    \/ \E t \in SweepThreads : SweepCapPop(t)

SpecSweep ==
    InitSweep /\ [][NextSweep]_vars

\* a stored token that decodes and whose exp has passed the validity margin
Expired(token, t) ==
    Truthy(token) /\ ~is_valid_token(token, t)

\* entries 1..k of data are expired and entries k+1..Len(data) are valid
ExpiredPrefix(data, k, t) ==
    \A i \in 1..Len(data) :
        IF i <= k THEN Expired(data[i].token, t) ELSE is_valid_token(data[i].token, t)

\* C5: when the entries found by a get are an expired prefix [0,k) followed
\* by valid entries [k,N), N-k <= max_size, and the key looked up is one of
\* the valid ones, the get leaves exactly the entries [k,N), in order, for
\* every choice of token strings (also one string under several keys).
C5_ExpiredPrefixRemoved ==
    \A k \in 0..Len(last.before) :
        ( /\ last.op = "get"
          /\ ExpiredPrefix(last.before, k, last.at)
          /\ last.key \in Keys(SubSeq(last.before, k + 1, Len(last.before)))
          /\ Len(last.before) - k <= stack.max_size )
        => stack.data = SubSeq(last.before, k + 1, Len(last.before))

\* C6 as stated: right after any get, hit or miss, the size is within max_size.
C6_SizeBoundAfterAnyGet ==
    last.op = "get" => Len(stack.data) <= stack.max_size

\* C6 as amended: right after a get that found a token, the size is within
\* max_size.
C6_SizeBoundAfterHit ==
    (last.op = "get" /\ Truthy(last.token)) => Len(stack.data) <= stack.max_size

\* a get found its token in a stack of valid tokens holding more than max_size
C6_Witness ==
    /\ last.op = "get"
    /\ Truthy(last.token)
    /\ ExpiredPrefix(last.before, 0, last.at)
    /\ Len(last.before) > stack.max_size
    /\ Len(stack.data) = stack.max_size

----------------------------------------------------------------------------
(* Claims about AuthClient / Auth, checked under Spec *)

\* the token that the cache of call c held for it when the fields were sn
CachedFor(sn, c) ==
    IF CacheOf(c) = "user" THEN Lookup(sn.user_stack.data, c.user_id.id)
    ELSE IF CacheOf(c) = "backend_with_user"
    THEN Lookup(sn.backend_stack.data, c.user_id.id)
    ELSE sn.backend

IsLogin(exchange) ==
    exchange.url = "/login_token"

Ended(exchange) ==
    exchange.response # Pending

\* the exchange ended in something else than a 200: an error status or a timeout
Failed(exchange) ==
    Ended(exchange) /\ Received(exchange.response).status_code # HTTP_OK

Count(exchanges, login) ==
    Cardinality({ i \in 1..Len(exchanges) : IsLogin(exchanges[i]) = login })

\* C1: a create_user_token(K) / create_backend_token(K) that finds a valid
\* token for K in its per-user cache issues no HTTP request and returns that
\* token as a success.
C1_CacheHitAvoidsNetwork ==
    \A t \in Callers :
        ( /\ pc[t] # "idle"
          /\ CacheOf(call[t]) # "backend"
          /\ is_valid_token(CachedFor(snap[t], call[t]), snap[t].at) )
        => /\ pc[t] = "done"
           /\ http[t] = << >>
           /\ result[t] = Success(CachedFor(snap[t], call[t]))

\* a call was answered from its per-user cache while the login token had expired
C1_Witness ==
    \E t \in Callers :
        /\ pc[t] = "done"
        /\ CacheOf(call[t]) # "backend"
        /\ is_valid_token(CachedFor(snap[t], call[t]), snap[t].at)
        /\ ~is_valid_token(snap[t].login, snap[t].at)
        /\ http[t] = << >>
        /\ result[t].ok

\* C2: a call that finds an expired token for K in its per-user cache does
\* not return it: the call goes to the server as on a miss.
C2_ExpiredIsMiss ==
    \A t \in Callers :
        ( /\ pc[t] # "idle"
          /\ CacheOf(call[t]) # "backend"
          /\ Expired(CachedFor(snap[t], call[t]), snap[t].at) )
        => /\ http[t] # << >>
           /\ result[t] # Success(CachedFor(snap[t], call[t]))

\* call c found no token to return in its cache when the fields were sn: no
\* entry in a per-user cache, no valid token in the backend slot
Missed(sn, c) ==
    IF CacheOf(c) = "backend"
    THEN ~is_valid_token(sn.backend, sn.at)
    ELSE ~Truthy(CachedFor(sn, c))

\* a /login_token request of caller t leaves in this step
SendsLogin(t) ==
    /\ http'[t] # http[t]
    /\ http'[t] # << >>
    /\ IsLogin(http'[t][Len(http'[t])])
    /\ ~Ended(http'[t][Len(http'[t])])

\* C3: a /login_token request leaves only in a call that missed its token
\* cache, and only while the cached login token fails the validity predicate;
\* none leaves while the login token is valid.
C3_LoginTokenReuse ==
    [][ \A t \in Callers :
            SendsLogin(t) =>
                /\ ~is_valid_token(cached_login_token, now)
                /\ Missed(snap'[t], call'[t]) ]_vars

\* a call that missed its cache was served with the login token of an
\* earlier call: one mint request and no /login_token request
C3_Witness ==
    \E t \in Callers :
        /\ pc[t] = "done"
        /\ result[t].ok
        /\ Len(http[t]) = 1
        /\ ~IsLogin(http[t][1])
        /\ is_valid_token(snap[t].login, snap[t].at)

Cold(sn) ==
    /\ sn.login = None
    /\ sn.backend = None
    /\ sn.backend_stack.data = << >>
    /\ sn.user_stack.data = << >>

AllOk(exchanges) ==
    \A i \in 1..Len(exchanges) :
        Ended(exchanges[i]) /\ Received(exchanges[i].response).status_code = HTTP_OK

\* the cold call of C4 has returned
ColdStartDone(t) ==
    /\ pc[t] = "done"
    /\ CacheOf(call[t]) = "backend_with_user"
    /\ Cold(snap[t])
    /\ AllOk(http[t])

\* C4: with every cache empty and the server answering 200,
\* create_backend_token(user_id=u) issues GET /login_token and then
\* GET /backend_token/u and nothing else, leaves the login slot and the entry
\* u of the backend-with-user cache populated, and returns the token of the
\* second response; the same call repeated at once issues no request and
\* returns the same token.
C4_ColdStart ==
    /\ [](\A t \in Callers :
            ColdStartDone(t) =>
                /\ Len(http[t]) = 2
                /\ IsLogin(http[t][1])
                /\ http[t][2].url = "/backend_token/{user_id}"
                /\ http[t][2].user_id = call[t].user_id
                /\ cached_login_token = http[t][1].response.json.token
                /\ http[t][2].credential = cached_login_token
                /\ Lookup(cached_backend_token_stack.data, call[t].user_id.id)
                       = http[t][2].response.json.token
                /\ result[t] = Success(http[t][2].response.json.token))
    /\ [][ \A t \in Callers :
            ( /\ ColdStartDone(t)
              /\ now = snap[t].at
              /\ call'[t] = call[t]
              /\ http'[t] # http[t] )
            => /\ pc'[t] = "done"
               /\ http'[t] = << >>
               /\ result'[t] = result[t] ]_vars

\* the repeated call has returned from the cache that the cold call filled
C4_Witness ==
    \E t \in Callers :
        /\ pc[t] = "done"
        /\ call[t] = [op |-> "create_backend_token", user_id |-> UserId("u1")]
        /\ http[t] = << >>
        /\ now = 0
        /\ snap[t].login # None
        /\ snap[t].backend = None
        /\ snap[t].user_stack.data = << >>
        /\ Keys(snap[t].backend_stack.data) = {"u1"}
        /\ result[t] = Success(Lookup(snap[t].backend_stack.data, "u1"))

\* C7: when an exchange of a call times out, no exception leaves the call: it
\* returns a Failure whose AuthError has code 408 and the message
\* {"message": "Request timed out"}.
C7_TimeoutNormalization ==
    \A t \in Callers :
        (http[t] # << >> /\ http[t][Len(http[t])].response = Timeout)
        => /\ pc[t] = "done"
           /\ result[t] = Failure([operation |-> OperationName(call[t]),
                                   code |-> 408,
                                   message |-> [message |-> "Request timed out"]])

\* a mint request timed out after a /login_token exchange that returned 200
C7_Witness ==
    \E t \in Callers :
        /\ pc[t] = "done"
        /\ Len(http[t]) = 2
        /\ http[t][2].response = Timeout
        /\ ~result[t].ok

\* the exchanges of a call are a /login_token exchange that ended with a 200
\* followed by a mint exchange, or one of the two alone
LoginBeforeMint(exchanges) ==
    /\ Len(exchanges) <= 2
    /\ \A i \in 1..Len(exchanges) : IsLogin(exchanges[i]) => i = 1
    /\ Len(exchanges) = 2 =>
           /\ IsLogin(exchanges[1])
           /\ Ended(exchanges[1])
           /\ ~Failed(exchanges[1])

\* C8 as stated: the login step ends before a mint request leaves, and after a
\* failed login step no mint request leaves and the Failure carries the status
\* and the body of the login response.
C8_LoginFailureCarriesBody ==
    \A t \in Callers :
        /\ LoginBeforeMint(http[t])
        /\ (http[t] # << >> /\ IsLogin(http[t][1]) /\ Failed(http[t][1]))
           => /\ Len(http[t]) = 1
              /\ pc[t] = "done"
              /\ ~result[t].ok
              /\ result[t].error.code = Received(http[t][1].response).status_code
              /\ result[t].error.message = Received(http[t][1].response).json

\* C8 as amended: the Failure carries the status of the login response and
\* its JSON body, or {"message": "no content"} when the body is not JSON.
C8_LoginBeforeMint ==
    \A t \in Callers :
        /\ LoginBeforeMint(http[t])
        /\ (http[t] # << >> /\ IsLogin(http[t][1]) /\ Failed(http[t][1]))
           => /\ Len(http[t]) = 1
              /\ pc[t] = "done"
              /\ ~result[t].ok
              /\ result[t].error.code = Received(http[t][1].response).status_code
              /\ result[t].error.message =
                     IF Received(http[t][1].response).json = NotJson
                     THEN [message |-> "no content"]
                     ELSE Received(http[t][1].response).json

\* a call ended on a failed /login_token exchange whose body was not JSON
C8_Witness ==
    \E t \in Callers :
        /\ pc[t] = "done"
        /\ Len(http[t]) = 1
        /\ IsLogin(http[t][1])
        /\ Failed(http[t][1])
        /\ Received(http[t][1].response).json = NotJson

\* C9: a call issues at most one /login_token request and at most one mint
\* request, and an exchange that fails is the last of its call, which returns
\* a Failure.
C9_NoRetry ==
    \A t \in Callers :
        /\ Count(http[t], TRUE) <= 1
        /\ Count(http[t], FALSE) <= 1
        /\ \A i \in 1..Len(http[t]) :
               Failed(http[t][i]) =>
                   /\ i = Len(http[t])
                   /\ pc[t] = "done"
                   /\ ~result[t].ok

\* a call ended on a mint request that failed
C9_Witness ==
    \E t \in Callers :
        /\ pc[t] = "done"
        /\ Len(http[t]) = 2
        /\ Failed(http[t][2])
        /\ ~result[t].ok

\* the call of caller t ended with its mint exchange
MintEnded(t) ==
    /\ pc[t] = "done"
    /\ http[t] # << >>
    /\ ~IsLogin(http[t][Len(http[t])])

\* C10: a call whose mint request fails returns a Failure with the status of
\* the response (408 for a timeout) and leaves the user-token cache, the
\* backend-with-user cache and the backend slot as the call found them; a call
\* returns Success only for a 200.
C10_FailedMintWritesNothing ==
    \A t \in Callers :
        /\ (MintEnded(t) /\ Failed(http[t][Len(http[t])]))
           => /\ ~result[t].ok
              /\ result[t].error.code =
                     (IF http[t][Len(http[t])].response = Timeout THEN 408
                      ELSE http[t][Len(http[t])].response.status_code)
              /\ cached_user_token_stack = snap[t].user_stack
              /\ cached_backend_token_stack = snap[t].backend_stack
              /\ cached_backend_token = snap[t].backend
        /\ (pc[t] = "done" /\ result[t].ok /\ http[t] # << >>)
           => /\ MintEnded(t)
              /\ ~Failed(http[t][Len(http[t])])
              /\ CachedFor(AuthSnapshot, call[t]) = result[t].token

\* a mint request failed in a call that had just renewed the login token
C10_Witness ==
    \E t \in Callers :
        /\ MintEnded(t)
        /\ Failed(http[t][Len(http[t])])
        /\ Len(http[t]) = 2
        /\ cached_login_token # snap[t].login
        /\ snap[t].user_stack.data # << >>

\* C11: a failed create_backend_token reports "create_backend_token (with user)"
\* when a user_id was given and "create_backend_token" without one, and for
\* every user_id, None and "" included, the name reported is the one of the
\* endpoint the call used: /backend_token/{user_id} or /backend_token.
C11_OperationNaming ==
    \A t \in Callers :
        (pc[t] = "done" /\ call[t].op = "create_backend_token" /\ ~result[t].ok)
        => /\ result[t].error.operation \in
                  {"create_backend_token", "create_backend_token (with user)"}
           /\ call[t].user_id \in { UserId(u) : u \in Users } =>
                  result[t].error.operation = "create_backend_token (with user)"
           /\ call[t].user_id = None =>
                  result[t].error.operation = "create_backend_token"
           /\ \A i \in 1..Len(http[t]) :
                  /\ http[t][i].url = "/backend_token/{user_id}" =>
                         result[t].error.operation = "create_backend_token (with user)"
                  /\ http[t][i].url = "/backend_token" =>
                         result[t].error.operation = "create_backend_token"

\* create_backend_token(user_id="") failed on its request to /backend_token
C11_Witness ==
    \E t \in Callers :
        /\ pc[t] = "done"
        /\ call[t] = [op |-> "create_backend_token", user_id |-> EmptyStr]
        /\ ~result[t].ok
        /\ Len(http[t]) = 2
        /\ http[t][2].url = "/backend_token"

----------------------------------------------------------------------------
(* C13: a get that misses does no maintenance                               *)

Hit ==
    last.op = "get" /\ Truthy(last.token)

Miss ==
    last.op = "get" /\ ~Truthy(last.token)

\* what the expiry sweep leaves of the entries the last operation started from
SweptBefore ==
    clear_expired_tokens(last.before, last.at).data

\* C13: a get for a key with no stored token returns None; a get that finds no
\* token does not raise and leaves the entries, their order and their number
\* as they were, whatever is expired or over max_size; a get that finds a
\* token leaves what the expiry sweep followed by the capacity sweep leave
C13_MissDoesNoMaintenance ==
    /\ (last.op = "get" /\ last.key \notin Keys(last.before)) => last.token = None
    /\ Miss => (stack.data = last.before /\ ~last.raised)
    /\ (Hit /\ ~last.raised) =>
           stack.data = clear_if_max_size_has_been_exceeded(SweptBefore, stack.max_size)

\* a miss on a cache that holds an expired entry and more than max_size entries
C13_Witness ==
    /\ Miss
    /\ last.key \notin Keys(last.before)
    /\ Len(stack.data) > stack.max_size
    /\ \E i \in 1..Len(stack.data) :
           Truthy(stack.data[i].token) /\ ~is_valid_token(stack.data[i].token, last.at)

----------------------------------------------------------------------------
(* C14: the capacity sweep of a get that hits                               *)

\* C14: when a get finds a token and the expiry sweep leaves n entries, then
\* with n > max_size the newest max_size of them survive in their order (the
\* n - max_size oldest are removed) and with n <= max_size all n survive
C14_CapacitySweep ==
    (Hit /\ ~last.raised) =>
        LET n == Len(SweptBefore)
            m == stack.max_size
        IN  IF n > m
            THEN /\ Len(stack.data) = m
                 /\ \A i \in 1..m : stack.data[i] = SweptBefore[n - m + i]
            ELSE stack.data = SweptBefore

\* a hit whose capacity sweep removed two entries
C14_Witness ==
    /\ Hit
    /\ ~last.raised
    /\ Len(SweptBefore) = stack.max_size + 2
    /\ Len(stack.data) = stack.max_size

----------------------------------------------------------------------------
(* C15: add followed by get of the same key                                 *)

\* C15: when add(key, token) with a non-empty token is followed by get(key)
\* with no other cache operation in between (time may pass), the get returns
\* that token, expired or not, whatever else is stored and also when its own
\* passes remove the entry of key
C15_AddGetRoundTrip ==
    [][(/\ last.op = "add"
        /\ Truthy(last.token)
        /\ last'.op = "get"
        /\ last'.key = last.key)
       => (last'.token = last.token /\ ~last'.raised)]_vars

\* a get that returned the token stored for its key and removed that entry
C15_Witness ==
    /\ Hit
    /\ ~last.raised
    /\ Lookup(last.before, last.key) = last.token
    /\ last.key \notin Keys(stack.data)

----------------------------------------------------------------------------
(* C16: add for a key that is already stored                                *)

ReAdd ==
    last.op = "add" /\ last.key \in Keys(last.before)

\* C16: after add(key, token) for a key that is already stored, the entry of
\* key holds the new token and is the newest of the eviction order
C16_ReAddMovesToNewest ==
    ReAdd =>
        stack.data[Len(stack.data)] = [key |-> last.key, token |-> last.token]

----------------------------------------------------------------------------
(* C17: add is lazy                                                         *)

\* the entries of the other keys, in order
Others(data, user_id) ==
    SelectSeq(data, LAMBDA e : e.key # user_id)

\* C17: add(key, token) stores the token whatever it is, removes nothing, and
\* leaves the entries of the other keys and their order as they were
C17_AddIsLazy ==
    last.op = "add" =>
        /\ Lookup(stack.data, last.key) = last.token
        /\ Keys(stack.data) = Keys(last.before) \cup {last.key}
        /\ Others(stack.data, last.key) = Others(last.before, last.key)
        /\ Len(stack.data) >= Len(last.before)
        /\ ~last.raised

\* an add of an already-expired token that leaves the cache above max_size
C17_Witness ==
    /\ last.op = "add"
    /\ Truthy(last.token)
    /\ ~is_valid_token(last.token, last.at)
    /\ Lookup(stack.data, last.key) = last.token
    /\ Len(stack.data) > stack.max_size

----------------------------------------------------------------------------
(* C18: the validity predicate on every Optional[str]                       *)

Decodes(token) ==
    Truthy(token) /\ token.kind = "jwt"

\* C18: a call of is_valid_token returns, and returns true exactly when the
\* token is present, decodes and has exp > now - 60; for None, "" and a
\* malformed token it returns false
C18_ValidityPredicate ==
    probe.called =>
        /\ probe.exception = "none"
        /\ probe.value =
               (/\ Decodes(probe.token)
                /\ "exp" \in DOMAIN probe.token
                /\ probe.token.exp > probe.at - margin_seconds)

----------------------------------------------------------------------------
(* C19: the margin as a safety buffer                                       *)

\* C19: whenever is_valid_token returns true the time of the call is strictly
\* earlier than the token's exp
C19_ValidOnlyBeforeExp ==
    (probe.called /\ probe.exception = "none" /\ probe.value) =>
        probe.at < probe.token.exp

----------------------------------------------------------------------------
(* C12: a failed token acquisition inside Onboarding.create_user            *)

TokenFailed ==
    onboarding.pc = "done" /\ pc[1] = "done" /\ ~result[1].ok

----------------------------------------------------------------------------
(* C20: concurrent callers and the login token                              *)

\* caller t found no valid login token when its call began
FoundLoginInvalid(t) ==
    ~is_valid_token(snap[t].login, snap[t].at)

\* the call of caller t ended in a Result of the two typed forms, made of its
\* own last exchange
TypedResult(t) ==
    IF result[t].ok
    THEN /\ result[t].token.kind = "jwt"
         /\ http[t] # << >> =>
                result[t].token = http[t][Len(http[t])].response.json.token
    ELSE /\ http[t] # << >>
         /\ Failed(http[t][Len(http[t])])
         /\ result[t].error =
                AuthError_from_response(OperationName(call[t]),
                                        Received(http[t][Len(http[t])].response))

\* C20: with two callers interleaved at the network boundaries, a caller that
\* misses its cache while the login token is invalid sends its own
\* /login_token request, whatever the other caller has in flight, and sends
\* one only; no call raises, and every call that ends returns a typed Result
C20_NoCoalescing ==
    \A t \in Racers :
        /\ (http[t] # << >> /\ FoundLoginInvalid(t)) => IsLogin(http[t][1])
        /\ Count(http[t], TRUE) <= 1
        /\ pc[t] # "raised"
        /\ pc[t] = "done" => TypedResult(t)

\* both callers found the login slot empty, each fetched a login token of its
\* own, and both returned a Success
C20_Witness ==
    \A t \in Racers :
        /\ pc[t] = "done"
        /\ snap[t].login = None
        /\ Len(http[t]) = 2
        /\ IsLogin(http[t][1])
        /\ Received(http[t][1].response).status_code = HTTP_OK
        /\ result[t].ok

----------------------------------------------------------------------------
(* C21: concurrent create_user_token calls for one user                     *)

\* caller t has sent a /user_token request for user u
MintedFor(t, u) ==
    /\ call[t] = [op |-> "create_user_token", user_id |-> UserId(u)]
    /\ \E i \in 1..Len(http[t]) : http[t][i].url = "/user_token/{user_id}"

\* the token caller t got for its /user_token request is valid at time at
MintedValidAt(t, at) ==
    /\ Ended(http[t][Len(http[t])])
    /\ Received(http[t][Len(http[t])].response).status_code = HTTP_OK
    /\ is_valid_token(http[t][Len(http[t])].response.json.token, at)

\* C21 as stated: over every interleaving of concurrent create_user_token(u)
\* calls, two callers never both send GET /user_token/u, unless the token
\* minted for the one had left its validity window when the other began
C21_SingleFlightPerUser ==
    \A t1, t2 \in Racers : \A u \in Users :
        (t1 # t2 /\ MintedFor(t1, u) /\ MintedFor(t2, u)) =>
            \/ (MintedValidAt(t1, now) /\ ~MintedValidAt(t1, snap[t2].at))
            \/ (MintedValidAt(t2, now) /\ ~MintedValidAt(t2, snap[t1].at))

\* the entry caller t found for its user when its create_user_token began
FoundUserToken(t) ==
    Lookup(snap[t].user_stack.data, call[t].user_id.id)

\* C21 amended: a create_user_token(u) that begins after a token for u was
\* stored sends no request and returns the stored token; only calls that
\* both miss before either has stored send a request each
C21_StoredTokenAvoidsNetwork ==
    \A t \in Racers :
        (/\ call[t].op = "create_user_token"
         /\ pc[t] # "idle"
         /\ Truthy(FoundUserToken(t)))
        => /\ http[t] = << >>
           /\ pc[t] = "done"
           /\ result[t] = Success(FoundUserToken(t))

\* one caller minted a token for u, the other began later and was served it
\* from the cache
C21_Witness ==
    \E t1, t2 \in Racers : \E u \in Users :
        /\ t1 # t2
        /\ MintedFor(t1, u)
        /\ MintedValidAt(t1, now)
        /\ call[t2] = call[t1]
        /\ pc[t2] = "done"
        /\ http[t2] = << >>
        /\ result[t2] = result[t1]
        /\ result[t2].ok

----------------------------------------------------------------------------
(* C22: one timeout for every outbound request                              *)

\* C22: every request sent by a client built from a Config is sent with the
\* timeout of that Config
C22_UniformTimeout ==
    wiring.built => \A r \in wiring.sent : r.timeout = wiring.config

----------------------------------------------------------------------------
(* C23: what a get that hits leaves in the cache                            *)

\* C23: after a get that finds a token in a cache of non-empty token strings
\* (the same string under several keys included), every entry left in the
\* cache passes the validity predicate at the time of that get
C23_NoExpiredAfterHit ==
    (/\ Hit
     /\ ~last.raised
     /\ \A i \in 1..Len(last.before) : Truthy(last.before[i].token))
    => \A i \in 1..Len(stack.data) : is_valid_token(stack.data[i].token, last.at)

----------------------------------------------------------------------------
(* C24: the expiry sweep removes a prefix                                   *)

DistinctTokens(data) ==
    \A i, j \in 1..Len(data) : data[i].token = data[j].token => i = j

\* the positions of the tokens whose exp has passed at time t
ExpiredAt(data, t) ==
    { i \in 1..Len(data) : Truthy(data[i].token) /\ ~is_valid_token(data[i].token, t) }

\* the position of the newest of them
NewestExpired(data, t) ==
    CHOOSE i \in ExpiredAt(data, t) : \A j \in ExpiredAt(data, t) : j <= i

\* the entries inserted strictly after the newest expired entry
AfterNewestExpired(data, t) ==
    SubSeq(data, NewestExpired(data, t) + 1, Len(data))

\* a get found a token in a cache of distinct token strings with an expired one
HitWithExpired ==
    /\ Hit
    /\ DistinctTokens(last.before)
    /\ ExpiredAt(last.before, last.at) # {}

\* what C24 says of such a get
PrefixRemoved ==
    /\ ~last.raised
    /\ last.token = Lookup(last.before, last.key)
    /\ stack.data = clear_if_max_size_has_been_exceeded(
                        AfterNewestExpired(last.before, last.at), stack.max_size)

----------------------------------------------------------------------------
(* C25: get never reorders                                                  *)

\* every entry of data is an entry of before, and the entries of data stand
\* in the order they have in before
SameOrder(data, before) ==
    /\ \A i \in 1..Len(data) :
           /\ data[i].key \in Keys(before)
           /\ data[i] = before[IndexOf(before, data[i].key)]
    /\ \A i, j \in 1..Len(data) :
           i < j => IndexOf(before, data[i].key) < IndexOf(before, data[j].key)

\* C25: the entries a get leaves are entries it found, in the order it found
\* them; and a get that hits while no stored token is expired and the size is
\* at most max_size leaves the cache as it was
C25_GetNeverReorders ==
    last.op = "get" =>
        /\ SameOrder(stack.data, last.before)
        /\ (/\ Hit
            /\ ExpiredAt(last.before, last.at) = {}
            /\ Len(last.before) <= stack.max_size)
           => (stack.data = last.before /\ ~last.raised)

\* a get hit the oldest of several entries, none expired and within max_size,
\* and left it the oldest
C25_Witness ==
    /\ Hit
    /\ ExpiredAt(last.before, last.at) = {}
    /\ Len(last.before) >= 2
    /\ Len(last.before) <= stack.max_size
    /\ last.before[1].key = last.key
    /\ stack.data[1].key = last.key

----------------------------------------------------------------------------
(* C26: the removal loop of the expiry sweep ends                           *)

\* C26: no get of a sequential run reaches popitem on an empty cache, and the
\* expiry sweep of the cache as it stands would not either: the token the
\* removal loop looks for is stored, so the loop ends within len(cache) pops
C26_SweepTerminates ==
    /\ ~last.raised
    /\ ~clear_expired_tokens(stack.data, now).raised
    /\ Truthy(LatestExpiredToken(stack.data, now)) =>
           \E i \in 1..Len(stack.data) :
               stack.data[i].token = LatestExpiredToken(stack.data, now)

\* a sweep popped every entry of a cache holding one expired token string
\* under two keys, and stopped there
C26_Witness ==
    /\ Hit
    /\ ~last.raised
    /\ \E i, j \in ExpiredAt(last.before, last.at) :
           i # j /\ last.before[i].token = last.before[j].token
    /\ SweptBefore = << >>
    /\ stack.data = << >>

----------------------------------------------------------------------------
(* C27: the login slot and the plain backend slot are validated             *)

\* the exchange got a 200
Ok(exchange) ==
    Ended(exchange) /\ Received(exchange.response).status_code = HTTP_OK

\* C27: a create_backend_token() answered from the slot returns a token that
\* passes the validity predicate at that call; a mint request carries the
\* cached login token only when it passed the predicate when the call began,
\* and else the token of the call's own /login_token response; a token
\* fetched for a slot is the slot's content afterwards
C27_SlotsValidated ==
    \A t \in Callers :
        /\ (pc[t] = "done" /\ CacheOf(call[t]) = "backend" /\ http[t] = << >>) =>
               /\ result[t] = Success(snap[t].backend)
               /\ is_valid_token(snap[t].backend, snap[t].at)
        /\ \A i \in 1..Len(http[t]) :
               ~IsLogin(http[t][i]) =>
                   IF is_valid_token(snap[t].login, snap[t].at)
                   THEN i = 1 /\ http[t][i].credential = snap[t].login
                   ELSE /\ i = 2
                        /\ IsLogin(http[t][1])
                        /\ Ok(http[t][1])
                        /\ http[t][i].credential = http[t][1].response.json.token
                        /\ http[t][i].credential # snap[t].login
                        /\ is_valid_token(http[t][i].credential, snap[t].at)
        /\ (http[t] # << >> /\ IsLogin(http[t][1]) /\ Ok(http[t][1])) =>
               cached_login_token = http[t][1].response.json.token
        /\ (/\ pc[t] = "done"
            /\ CacheOf(call[t]) = "backend"
            /\ http[t] # << >>
            /\ Ok(http[t][Len(http[t])])
            /\ ~IsLogin(http[t][Len(http[t])])) =>
               cached_backend_token = http[t][Len(http[t])].response.json.token

\* both slots held expired tokens when create_backend_token() began; the call
\* fetched a login token and a backend token and both slots hold the new ones
C27_Witness ==
    \E t \in Callers :
        /\ pc[t] = "done"
        /\ CacheOf(call[t]) = "backend"
        /\ Truthy(snap[t].login)
        /\ ~is_valid_token(snap[t].login, snap[t].at)
        /\ Truthy(snap[t].backend)
        /\ ~is_valid_token(snap[t].backend, snap[t].at)
        /\ Len(http[t]) = 2
        /\ result[t].ok
        /\ cached_login_token = http[t][1].response.json.token
        /\ cached_backend_token = result[t].token
        /\ cached_backend_token # snap[t].backend

----------------------------------------------------------------------------
(* C28: cache isolation                                                     *)

\* token was issued for the url and user id of call c: the server writes the
\* kind of the endpoint and the user id of the path into the token it mints
IssuedFor(token, c) ==
    /\ token.kind = "jwt"
    /\ token.typ = MintType(c)
    /\ token.sub = MintSubject(c)

\* every entry of a per-user cache holds a token issued for its key
StackIsolated(s, typ) ==
    \A i \in 1..Len(s.data) :
        /\ s.data[i].token.kind = "jwt"
        /\ s.data[i].token.typ = typ
        /\ s.data[i].token.sub = s.data[i].key

----------------------------------------------------------------------------
(* C29: a stale per-user token is served from the cache once                *)

\* the per-user cache that the call c reads, as it stands
StackOf(c) ==
    IF CacheOf(c) = "user" THEN cached_user_token_stack ELSE cached_backend_token_stack

\* the last call of caller t was for a per-user token and was answered from
\* the cache with a token that failed the validity predicate at that call
ServedStale(t) ==
    /\ pc[t] = "done"
    /\ CacheOf(call[t]) # "backend"
    /\ http[t] = << >>
    /\ result[t].ok
    /\ ~is_valid_token(result[t].token, snap[t].at)

\* C29: a call for K answered from the cache with a token that fails the
\* validity predicate has removed the entry of K; the next call for K then
\* sends a request and does not return that token from the cache again
C29_StaleServedOnce ==
    /\ [](\A t \in Callers :
              ServedStale(t) => call[t].user_id.id \notin Keys(StackOf(call[t]).data))
    /\ [][ \A t \in Callers :
               (ServedStale(t) /\ call'[t] = call[t] /\ snap'[t] # snap[t])
               => /\ pc'[t] \in {"login_token", "mint"}
                  /\ http'[t] # << >>
                  /\ ~ServedStale(t)' ]_vars

\* a create_user_token call was answered from the cache with an expired token
\* and left the cache without the entry of its user
C29_Witness ==
    \E t \in Callers :
        /\ ServedStale(t)
        /\ call[t].op = "create_user_token"
        /\ Truthy(FoundUserToken(t))
        /\ call[t].user_id.id \notin Keys(cached_user_token_stack.data)

----------------------------------------------------------------------------
(* C30: two unsynchronised gets on one CachedTokenStack                     *)

\* the get of thread t failed in popitem on an empty cache
SweepRaised(t) ==
    threads[t].pc = "raised"

\* C30: a get fails in popitem only on an emptied cache and only when another
\* thread popped an entry after this get's scan; while no other thread has
\* disturbed a removal loop, the token it looks for is still stored, so a get
\* that runs alone never fails
C30_RaiseOnlyWhenDisturbed ==
    \A t \in SweepThreads :
        /\ SweepRaised(t) => (stack.data = << >> /\ threads[t].disturbed)
        /\ (threads[t].pc = "pop" /\ ~threads[t].disturbed) =>
               \E i \in 1..Len(stack.data) : stack.data[i].token = threads[t].latest

\* both gets hit; the second removal loop looked for a token the first had
\* already popped, popped a valid entry, emptied the cache and failed in
\* popitem, while the first get returned
C30_Witness ==
    \E t, u \in SweepThreads :
        /\ t # u
        /\ SweepRaised(t)
        /\ Truthy(threads[t].token)
        /\ Truthy(threads[t].latest)
        /\ threads[t].num_to_delete = 0
        /\ \E i \in 1..Len(threads[u].removed) :
               threads[u].removed[i].token = threads[t].latest
        /\ \E i \in 1..Len(threads[t].removed) :
               is_valid_token(threads[t].removed[i].token, now)
        /\ threads[u].pc = "done"
        /\ Truthy(threads[u].token)
        /\ stack.data = << >>

====
